---- MODULE Spec2Model ----
(***************************************************************************)
(* Meta-Dispatcher: the single POST "/" endpoint of app.py, the schema     *)
(* classifier determine_service and the two backend clients of             *)
(* services.py.                                                            *)
(*                                                                         *)
(* One request handler runs per inbound request on one asyncio event loop, *)
(* so everything between two awaits is one atomic step.  The awaits of     *)
(* api_endpoint are: lock.acquire() (line 41), request.form() (line 43),   *)
(* request.json() (line 53) and service.send_request() (line 62).          *)
(*                                                                         *)
(* Library behaviour the code relies on is modelled by what the library    *)
(* does: asyncio.Lock (locked flag + FIFO deque of waiter futures),        *)
(* Starlette's Request.form()/json(), pydantic's validation of FaceData    *)
(* and ManhuaData (Optional fields are not required, extra fields are      *)
(* ignored), httpx's AsyncClient.post (returns the response whatever its   *)
(* status; raises only on transport failure) and Response.json().          *)
(***************************************************************************)
EXTENDS Integers, Sequences, FiniteSets, TLC

VARIABLES pc, body, locked, waiters, woken, service, data, tried, calls,
          inflight, response, gone, arg, ret

vars == <<pc, body, locked, waiters, woken, service, data, tried, calls,
          inflight, response, gone, arg, ret>>

(***************************************************************************)
(* Bounds                                                                  *)
(***************************************************************************)
NumReqs == 2

Reqs == 1..NumReqs

(***************************************************************************)
(* services.py                                                             *)
(***************************************************************************)
TIMEOUT_LIMIT == 300

(* The values a `service` local can hold; "None" is Python's None.         *)
Services == {"FaceService", "ManhuaService"}

(***************************************************************************)
(* Payloads.  A payload maps each schema field to the kind of value it     *)
(* carries; `extra` says whether fields outside both schemas are present.  *)
(*   absent  the key is missing        null    JSON null                   *)
(*   text    a non-numeric string      int     a number or numeric string  *)
(*   upload  an uploaded file part     object  a JSON object               *)
(***************************************************************************)
Payloads ==
    [content_type : {"absent", "null", "text", "object"},
     content_name : {"absent", "null", "text", "object"},
     face_restore : {"absent", "null", "int", "text"},
     file         : {"absent", "upload", "text"},
     url          : {"absent", "text"},
     data         : {"absent", "text", "object"},
     extra        : BOOLEAN]

EmptyPayload ==
    [content_type |-> "absent", content_name |-> "absent",
     face_restore |-> "absent", file |-> "absent", url |-> "absent",
     data |-> "absent", extra |-> FALSE]

(* pydantic coercion of one value to a declared type *)
StrOK(k)    == k \in {"text", "int"}
IntOK(k)    == k = "int"
UploadOK(k) == k = "upload"
DictOK(k)   == k = "object"

RequiredField(k, ok) == k \notin {"absent", "null"} /\ ok
OptionalField(k, ok) == k \in {"absent", "null"} \/ ok

(* the FaceData constructor does not raise ValidationError *)
FaceData(p) ==
    /\ RequiredField(p.content_type, StrOK(p.content_type))
    /\ RequiredField(p.content_name, StrOK(p.content_name))
    /\ OptionalField(p.face_restore, IntOK(p.face_restore))
    /\ OptionalField(p.file, UploadOK(p.file))
    /\ OptionalField(p.url, StrOK(p.url))

(* the ManhuaData constructor does not raise ValidationError *)
ManhuaData(p) == RequiredField(p.data, DictOK(p.data))

Returned(s) == [raised |-> FALSE, service |-> s, status |-> 0, detail |-> ""]
Raised(st, d) == [raised |-> TRUE, service |-> "None", status |-> st, detail |-> d]

(* determine_service with the two schemas tried in the other order *)
determine_service_image_first(p) ==
    IF ManhuaData(p) THEN Returned("ManhuaService")
    ELSE IF FaceData(p) THEN Returned("FaceService")
    ELSE Raised(400, "Invalid request format.")

(* determine_service with no try/except around FaceData: the validation
   error of the face schema escapes                                        *)
determine_service_face_fatal(p) ==
    IF FaceData(p) THEN Returned("FaceService")
    ELSE Raised(422, "ValidationError")

(* determine_service ending in `return None` instead of the raise *)
determine_service_returns_none(p) ==
    IF FaceData(p) THEN Returned("FaceService")
    ELSE IF ManhuaData(p) THEN Returned("ManhuaService")
    ELSE Returned("None")

determine_service(p) ==
    IF FaceData(p) THEN Returned("FaceService")
    ELSE IF ManhuaData(p) THEN Returned("ManhuaService")
    ELSE Raised(400, "Invalid request format.")

(* Python truthiness of a service value: `if not service` *)
Truthy(s) == s # "None"

(***************************************************************************)
(* Inbound request bodies.                                                 *)
(*   declared  the Content-Type header: multipart/form-data,               *)
(*             application/x-www-form-urlencoded or application/json       *)
(*   shape     what the bytes really are: a well-formed form body (in the  *)
(*             declared form encoding), a JSON object, or neither          *)
(*   payload   the fields the body carries (EmptyPayload for garbage)      *)
(***************************************************************************)
FacePayload == [EmptyPayload EXCEPT !.content_type = "text", !.content_name = "text"]

ImagePayload == [EmptyPayload EXCEPT !.data = "object"]

(* a face payload with a field outside the schema as well *)
FaceExtraPayload == [FacePayload EXCEPT !.extra = TRUE]

(* the form of test_form_data_request (test_app.py lines 20-26): every field
   of FaceData is sent as a text form field, `file` ("file1") included     *)
ScenarioPayload ==
    [FacePayload EXCEPT !.face_restore = "int", !.file = "text", !.url = "text"]

NeitherPayload == [EmptyPayload EXCEPT !.extra = TRUE]

JunkPayload == [EmptyPayload EXCEPT !.extra = TRUE]

FormPayloads == {FacePayload, NeitherPayload}

JsonPayloads == {ImagePayload, NeitherPayload}

Declared == {"multipart", "urlencoded", "json"}

Bodies ==
    [declared : Declared, shape : {"form"}, payload : FormPayloads]
    \cup [declared : Declared, shape : {"json"}, payload : JsonPayloads]
    \cup [declared : Declared, shape : {"garbage"}, payload : {EmptyPayload}]
    \cup {[declared |-> "multipart", shape |-> "form", payload |-> FaceExtraPayload],
          [declared |-> "urlencoded", shape |-> "form", payload |-> ScenarioPayload]}

NoBody == [declared |-> "none", shape |-> "none", payload |-> EmptyPayload]

(***************************************************************************)
(* Decoding: Request.form() and Request.json() as api_endpoint calls them. *)
(* form() parses only when a form content type is declared and returns an  *)
(* empty FormData otherwise; the multipart parser raises on a body that is *)
(* not multipart, the urlencoded parser accepts any bytes (as junk keys).  *)
(* json() raises unless the bytes are JSON.                                *)
(***************************************************************************)
Parsed(p) == [raised |-> FALSE, value |-> p]
ParseError == [raised |-> TRUE, value |-> EmptyPayload]

request_form(b) ==
    IF b.declared = "multipart"
    THEN IF b.shape = "form" THEN Parsed(b.payload) ELSE ParseError
    ELSE IF b.declared = "urlencoded"
    THEN IF b.shape = "form" THEN Parsed(b.payload) ELSE Parsed(JunkPayload)
    ELSE Parsed(EmptyPayload)

request_json(b) ==
    IF b.shape = "json" THEN Parsed(b.payload) ELSE ParseError

(* What one decode stage of api_endpoint leaves behind *)
Fail(st, d) ==
    [kind |-> "raise", status |-> st, detail |-> d, service |-> "None",
     data |-> EmptyPayload]
Selected(s, p) ==
    [kind |-> "service", status |-> 0, detail |-> "", service |-> s, data |-> p]

(* lines 42-49 reading the request from a module-level global that every
   arriving request overwrites: the stage sees the latest arrival's body   *)
form_stage_shared_request(b) ==
    LET latest == IF waiters # <<>> THEN body[waiters[Len(waiters)]] ELSE b
        f == request_form(latest)
    IN  IF f.raised THEN Fail(400, "Failed to parse form-data.")
        ELSE LET d == determine_service(f.value) IN
             IF d.raised THEN Fail(d.status, d.detail)
             ELSE Selected(d.service, f.value)

(* app.py lines 42-49 *)
form_stage(b) ==
    LET f == request_form(b) IN
    IF f.raised THEN Fail(400, "Failed to parse form-data.")
    ELSE LET d == determine_service(f.value) IN
         IF d.raised THEN Fail(d.status, d.detail)
         ELSE Selected(d.service, f.value)

(* app.py lines 52-59 *)
json_stage(b) ==
    LET j == request_json(b) IN
    IF j.raised THEN Fail(400, "Failed to parse JSON data.")
    ELSE LET d == determine_service(j.value) IN
         IF d.raised THEN Fail(d.status, d.detail)
         ELSE Selected(d.service, j.value)

(***************************************************************************)
(* Backends.  A behaviour is what the backend does with one call:          *)
(*   reply    answers after `wait` seconds with a status and a body that   *)
(*            is JSON (json = TRUE, value `content`) or is not             *)
(*   refused  the connection cannot be opened                              *)
(*   silent   accepts the connection and never answers                     *)
(***************************************************************************)
Contents == {"B1", "B2"}

Behaviours ==
    [kind : {"reply"}, status : {200, 503}, json : {TRUE}, content : Contents,
     wait : {1}]
    \cup [kind : {"reply"}, status : {200, 503}, json : {FALSE}, content : {"B1"},
          wait : {1}]
    \cup [kind : {"reply"}, status : {200}, json : {TRUE}, content : {"B1"},
          wait : {TIMEOUT_LIMIT + 1}]
    \cup [kind : {"refused", "silent"}, status : {0}, json : {FALSE},
          content : {""}, wait : {0}]

NoBehaviour == [kind |-> "none", status |-> 0, json |-> FALSE, content |-> "", wait |-> 0]

(* How each client encodes the payload: data= (form) or json= *)
Encoding(s) == IF s = "FaceService" THEN "form" ELSE "json"

(* forwarding the validated model (face_data) instead of the decoded data:
   fields outside the schema are dropped                                   *)
Call_validated_model(s, p) ==
    [service |-> s, encoding |-> Encoding(s), payload |-> [p EXCEPT !.extra = FALSE]]

Call(s, p) == [service |-> s, encoding |-> Encoding(s), payload |-> p]

(* the same payload sent to both backends *)
dispatch_fan_out(cs, s, p) ==
    cs \o <<Call("FaceService", p), Call("ManhuaService", p)>>

(* app.py line 62: one call, service.send_request(data), added to the calls
   the request has made                                                    *)
dispatch(cs, s, p) == Append(cs, Call(s, p))

ReturnResponse(b) ==
    [kind |-> "return", exc |-> "", status |-> b.status, json |-> b.json,
     content |-> b.content]
RaiseExc(e) ==
    [kind |-> "raise", exc |-> e, status |-> 0, json |-> FALSE, content |-> ""]
Pending ==
    [kind |-> "pending", exc |-> "", status |-> 0, json |-> FALSE, content |-> ""]

(* send_request with no timeout on the client: a backend that answers late
   is waited for, one that never answers is waited for for ever            *)
send_request_no_timeout(s, b) ==
    IF ~Truthy(s) THEN RaiseExc("AttributeError")
    ELSE IF b.kind = "refused" THEN RaiseExc("ConnectError")
    ELSE IF b.kind = "silent" THEN Pending
    ELSE ReturnResponse(b)

(* services.py lines 18-21 and 27-30: client.post under timeout=TIMEOUT_LIMIT;
   the response is returned whatever its status (no raise_for_status).
   Called on None (a falsy service) the attribute lookup fails.            *)
send_request(s, b) ==
    IF ~Truthy(s) THEN RaiseExc("AttributeError")
    ELSE IF b.kind = "refused" THEN RaiseExc("ConnectError")
    ELSE IF b.kind = "silent" THEN RaiseExc("ReadTimeout")
    ELSE IF b.wait > TIMEOUT_LIMIT THEN RaiseExc("ReadTimeout")
    ELSE ReturnResponse(b)

Answer(st, d, c) == [status |-> st, detail |-> d, content |-> c]

NoAnswer == [status |-> 0, detail |-> "", content |-> ""]

(* lines 61-67 with a handler of its own for timeouts *)
forward_result_timeout_504(o) ==
    IF o.kind = "return"
    THEN IF o.json THEN Answer(200, "", o.content)
         ELSE Answer(500, "Unexpected error occurred.", "")
    ELSE IF o.exc = "HTTPStatusError"
    THEN Answer(o.status, "Internal service returned an error.", "")
    ELSE IF o.exc = "ReadTimeout"
    THEN Answer(504, "Internal service timed out.", "")
    ELSE Answer(500, "Unexpected error occurred.", "")

(* app.py lines 61-67 applied to the outcome of send_request *)
forward_result(o) ==
    IF o.kind = "return"
    THEN IF o.json THEN Answer(200, "", o.content)
         ELSE Answer(500, "Unexpected error occurred.", "")
    ELSE IF o.exc = "HTTPStatusError"
    THEN Answer(o.status, "Internal service returned an error.", "")
    ELSE Answer(500, "Unexpected error occurred.", "")

(***************************************************************************)
(* The exclusivity gate: lock = asyncio.Lock() (app.py line 12), held by   *)
(* `async with lock` (line 41).  The lock is a flag and a FIFO queue of    *)
(* waiter futures; `woken` holds the waiters whose future has a result.    *)
(***************************************************************************)

(* an acquire that looks at the flag only: a newcomer takes a lock that
   has just been released to a waiter                                      *)
CanEnterBarging == ~locked

(* an acquire that looks at the queue of waiters only *)
CanEnterIgnoringLocked == waiters = <<>>

(* Lock.acquire takes the lock at once only when it is free and nobody waits *)
CanEnter == ~locked /\ waiters = <<>>

(* Lock._wake_up_first: the future of the first waiter gets its result *)
wake_up_first(w) == IF w = <<>> THEN {} ELSE {Head(w)}

(* acquire() ... release() with no try/finally: released on return only *)
aexit_releases_on_return(ans) == ans.status = 200

(* `async with`: the lock is released on every way out of the block *)
aexit_releases(ans) == TRUE

Remove(w, r) == SelectSeq(w, LAMBDA x : x # r)

NoRet == [raised |-> FALSE, service |-> "unset", status |-> 0, detail |-> ""]

Init ==
    /\ pc = [r \in Reqs |-> "idle"]
    /\ body = [r \in Reqs |-> NoBody]
    /\ locked = FALSE
    /\ waiters = <<>>
    /\ woken = {}
    /\ service = [r \in Reqs |-> "unbound"]
    /\ data = [r \in Reqs |-> EmptyPayload]
    /\ tried = [r \in Reqs |-> <<>>]
    /\ calls = [r \in Reqs |-> <<>>]
    /\ inflight = [r \in Reqs |-> NoBehaviour]
    /\ response = [r \in Reqs |-> NoAnswer]
    /\ gone = {}
    /\ arg = EmptyPayload
    /\ ret = NoRet

(* A request with a body of B arrives and its handler runs up to
   lock.acquire() (line 41): it takes the free lock or joins the queue of
   waiters.                                                                *)
Arrive(r, B) ==
    /\ pc[r] = "idle"
    /\ \E b \in B : body' = [body EXCEPT ![r] = b]
    /\ IF CanEnter
       THEN /\ locked' = TRUE
            /\ pc' = [pc EXCEPT ![r] = "form"]
            /\ UNCHANGED waiters
       ELSE /\ waiters' = Append(waiters, r)
            /\ pc' = [pc EXCEPT ![r] = "waiting"]
            /\ UNCHANGED locked
    /\ UNCHANGED <<woken, service, data, tried, calls, inflight, response, gone,
                   arg, ret>>

api_endpoint_enter(r) == Arrive(r, Bodies)

(* A woken waiter resumes inside Lock.acquire: it leaves the queue and
   takes the lock.                                                         *)
lock_acquire_resume(r) ==
    /\ pc[r] = "waiting"
    /\ r \in woken
    /\ waiters' = Remove(waiters, r)
    /\ woken' = woken \ {r}
    /\ locked' = TRUE
    /\ pc' = [pc EXCEPT ![r] = "form"]
    /\ UNCHANGED <<body, service, data, tried, calls, inflight, response, gone,
                   arg, ret>>

(* The handler leaves the `async with` block with its answer: Lock.release
   clears the flag and wakes the first waiter.                             *)
Leave(r, ans) ==
    /\ response' = [response EXCEPT ![r] = ans]
    /\ pc' = [pc EXCEPT ![r] = "done"]
    /\ IF aexit_releases(ans)
       THEN /\ locked' = FALSE
            /\ woken' = woken \cup wake_up_first(waiters)
       ELSE UNCHANGED <<locked, woken>>
    /\ UNCHANGED waiters

(* Whether request.form() finds the connection closed: it reads the body
   stream when a form content type is declared, and the stream of a caller
   who has left may raise ClientDisconnect (an Exception, so line 48-49
   answers 400 "Failed to parse form-data.") or still deliver the body.    *)
StreamClosed(r) ==
    IF /\ pc[r] = "form"
       /\ r \in gone
       /\ body[r].declared \in {"multipart", "urlencoded"}
    THEN BOOLEAN ELSE {FALSE}

(* The handler resumes from its decode await, request.form() (line 43) or
   request.json() (line 53), and runs to its next await or to its end:
   lines 43-49, then 51, then either 53 or the call of line 62.            *)
api_endpoint_decode(r) ==
    /\ pc[r] \in {"form", "json"}
    /\ \E closed \in StreamClosed(r) :
       LET st == IF closed THEN Fail(400, "Failed to parse form-data.")
                 ELSE IF pc[r] = "form" THEN form_stage(body[r])
                 ELSE json_stage(body[r])
       IN  /\ tried' = [tried EXCEPT ![r] = Append(@, pc[r])]
           /\ IF st.kind = "raise"
              THEN /\ Leave(r, Answer(st.status, st.detail, ""))
                   /\ UNCHANGED <<service, data, calls, inflight>>
              ELSE /\ service' = [service EXCEPT ![r] = st.service]
                   /\ data' = [data EXCEPT ![r] = st.data]
                   /\ IF pc[r] = "form" /\ ~Truthy(st.service)
                      THEN /\ pc' = [pc EXCEPT ![r] = "json"]
                           /\ UNCHANGED <<calls, inflight, response, locked,
                                          woken, waiters>>
                      ELSE /\ pc' = [pc EXCEPT ![r] = "send"]
                           /\ \E b \in Behaviours :
                                inflight' = [inflight EXCEPT ![r] = b]
                           /\ calls' = [calls EXCEPT ![r] =
                                  IF Truthy(st.service)
                                  THEN dispatch(@, st.service, st.data)
                                  ELSE @]
                           /\ UNCHANGED <<response, locked, woken, waiters>>
    /\ UNCHANGED <<body, gone, arg, ret>>

(* The await of line 62 ends (a response or an exception) and the handler
   runs lines 63-67 to its end.                                            *)
api_endpoint_forward(r) ==
    /\ pc[r] = "send"
    /\ LET o == send_request(service[r], inflight[r])
       IN  /\ o.kind # "pending"
           /\ Leave(r, forward_result(o))
    /\ UNCHANGED <<body, service, data, tried, calls, inflight, gone, arg, ret>>

Next ==
    \E r \in Reqs :
        \/ api_endpoint_enter(r)
        \/ lock_acquire_resume(r)
        \/ api_endpoint_decode(r)
        \/ api_endpoint_forward(r)

Spec == Init /\ [][Next]_vars

(***************************************************************************)
(* Fair scheduling.  The event loop runs every handler that is ready to    *)
(* resume; arrivals are the environment's and carry no fairness.  The      *)
(* bodies are one per way out of the handler: a face form (forwarded), a   *)
(* multipart body that does not parse, a form that matches no schema.      *)
(***************************************************************************)
ExitPathBodies ==
    {[declared |-> "multipart", shape |-> "form", payload |-> FacePayload],
     [declared |-> "multipart", shape |-> "garbage", payload |-> EmptyPayload],
     [declared |-> "urlencoded", shape |-> "form", payload |-> NeitherPayload]}

api_endpoint_enter_fair(r) == Arrive(r, ExitPathBodies)

NextFair ==
    \E r \in Reqs :
        \/ api_endpoint_enter_fair(r)
        \/ lock_acquire_resume(r)
        \/ api_endpoint_decode(r)
        \/ api_endpoint_forward(r)

Fairness ==
    \A r \in Reqs :
        /\ WF_vars(lock_acquire_resume(r))
        /\ WF_vars(api_endpoint_decode(r))
        /\ WF_vars(api_endpoint_forward(r))

FairSpec == Init /\ [][NextFair]_vars /\ Fairness

(***************************************************************************)
(* The running server: callers may leave while their request waits for the *)
(* gate, and a caller whose request is over may send the next one.         *)
(*                                                                         *)
(* api_endpoint does nothing about a caller that leaves.  Whether the      *)
(* server cancels the handler task of that caller is the server's choice   *)
(* (both outcomes are modelled); no other task is cancelled.  A cancelled  *)
(* waiter follows Lock.acquire's CancelledError path: it leaves the queue  *)
(* and, when the lock is free, wakes the first waiter left.                *)
(***************************************************************************)

(* a disconnect that cancels the call in flight as well *)
may_cancel_with_inflight(r) == {r} \cup {q \in Reqs : pc[q] = "send"}

(* the handler tasks the disconnect of the caller of r may cancel *)
may_cancel(r) == {r}

CancelTask(q) ==
    /\ pc' = [pc EXCEPT ![q] = "done"]
    /\ response' = [response EXCEPT ![q] = NoAnswer]
    /\ IF pc[q] = "waiting"
       THEN /\ waiters' = Remove(waiters, q)
            /\ woken' = (woken \ {q}) \cup
                        (IF locked THEN {} ELSE wake_up_first(Remove(waiters, q)))
            /\ UNCHANGED locked
       ELSE /\ locked' = FALSE
            /\ woken' = woken \cup wake_up_first(waiters)
            /\ UNCHANGED waiters

client_disconnect(r) ==
    /\ pc[r] = "waiting"
    /\ r \notin gone
    /\ gone' = gone \cup {r}
    /\ \E q \in may_cancel(r) \cup {0} :
          IF q = 0
          THEN UNCHANGED <<pc, response, locked, waiters, woken>>
          ELSE CancelTask(q)
    /\ UNCHANGED <<body, service, data, tried, calls, inflight, arg, ret>>

(* the caller of a finished request sends its next request: a fresh
   invocation of api_endpoint                                              *)
next_request(r) ==
    /\ pc[r] = "done"
    /\ pc' = [pc EXCEPT ![r] = "idle"]
    /\ body' = [body EXCEPT ![r] = NoBody]
    /\ service' = [service EXCEPT ![r] = "unbound"]
    /\ data' = [data EXCEPT ![r] = EmptyPayload]
    /\ tried' = [tried EXCEPT ![r] = <<>>]
    /\ calls' = [calls EXCEPT ![r] = <<>>]
    /\ inflight' = [inflight EXCEPT ![r] = NoBehaviour]
    /\ response' = [response EXCEPT ![r] = NoAnswer]
    /\ gone' = gone \ {r}
    /\ UNCHANGED <<locked, waiters, woken, arg, ret>>

NextServer ==
    \E r \in Reqs :
        \/ api_endpoint_enter_fair(r)
        \/ lock_acquire_resume(r)
        \/ api_endpoint_decode(r)
        \/ api_endpoint_forward(r)
        \/ client_disconnect(r)
        \/ next_request(r)

SpecServer == Init /\ [][NextServer]_vars

(***************************************************************************)
(* The classifier on its own: determine_service applied to any payload.    *)
(***************************************************************************)
InitClassify ==
    /\ Init!1 /\ Init!2 /\ Init!3 /\ Init!4 /\ Init!5 /\ Init!6 /\ Init!7
    /\ Init!8 /\ Init!9 /\ Init!10 /\ Init!11 /\ Init!12
    /\ arg \in Payloads
    /\ ret = NoRet

classify ==
    /\ ret = NoRet
    /\ ret' = determine_service(arg)
    /\ UNCHANGED <<pc, body, locked, waiters, woken, service, data, tried,
                   calls, inflight, response, gone, arg>>

NextClassify == classify

SpecClassify == InitClassify /\ [][NextClassify]_vars

(***************************************************************************)
(* Properties                                                              *)
(***************************************************************************)
Range(q) == {q[i] : i \in 1..Len(q)}

(* between the acquisition of the gate and the response *)
Inside(r) == pc[r] \in {"form", "json", "send"}

(* spec 4.1: a payload matches a schema when every required field is
   present with a value of the declared type and every optional field is
   absent, null or of the declared type                                    *)
SatisfiesFaceSchema(p) ==
    /\ p.content_type \in {"text", "int"}
    /\ p.content_name \in {"text", "int"}
    /\ p.face_restore \in {"absent", "null", "int"}
    /\ p.file \in {"absent", "null", "upload"}
    /\ p.url \in {"absent", "null", "text", "int"}

SatisfiesImageSchema(p) == p.data = "object"

(* C1: mutual exclusion - at most one request is inside the decode ->
   classify -> forward section at any instant, and so at most one backend
   call is in flight at any instant.                                       *)
MutualExclusion ==
    /\ Cardinality({r \in Reqs : Inside(r)}) <= 1
    /\ Cardinality({r \in Reqs : pc[r] = "send"}) <= 1

(* a backend call is in flight while another request waits for the gate *)
MutualExclusionWitness ==
    \E r, q \in Reqs : pc[r] = "send" /\ Len(calls[r]) = 1 /\ pc[q] = "waiting"

(* C2: release on every exit path - the gate is locked only while some
   request is between acquire and response; once every request that
   acquired it has answered (on whichever path), the gate is free.         *)
ReleasedOnEveryExit ==
    locked => \E r \in Reqs : Inside(r)

(* one request has answered on a decode/classification failure path, another
   on a downstream failure path, and the gate is free                      *)
ReleasedOnEveryExitWitness ==
    \E r, q \in Reqs :
        /\ pc[r] = "done" /\ response[r].status = 400
        /\ pc[q] = "done" /\ response[q].status = 500
        /\ ~locked

(* C3: no deadlock or gate leak - under fair scheduling every request that
   has arrived eventually receives its response.                           *)
EveryRequestAnswered ==
    \A r \in Reqs : (pc[r] # "idle") ~> (pc[r] = "done")

(* a request waits for the gate behind a call to a backend that never
   answers                                                                 *)
EveryRequestAnsweredWitness ==
    \E r, q \in Reqs :
        pc[r] = "waiting" /\ pc[q] = "send" /\ inflight[q].kind = "silent"

(* C4: face precedence - a payload that satisfies the face schema is
   classified as face, also when it carries a data object.                 *)
FacePrecedence ==
    (ret # NoRet /\ SatisfiesFaceSchema(arg)) => ret = Returned("FaceService")

(* a payload that satisfies both schemas has been classified *)
FacePrecedenceWitness ==
    /\ ret = Returned("FaceService")
    /\ SatisfiesFaceSchema(arg)
    /\ SatisfiesImageSchema(arg)

(* C5: image dispatch - a request whose payload satisfies only the image
   schema makes its one backend call to ManhuaService.                     *)
ImageDispatch ==
    \A r \in Reqs :
        (/\ pc[r] = "done"
         /\ body[r].shape = "json"
         /\ SatisfiesImageSchema(body[r].payload)
         /\ ~SatisfiesFaceSchema(body[r].payload))
        => (Len(calls[r]) = 1 /\ calls[r][1].service = "ManhuaService")

(* the backend answered within the time budget with status st *)
Answered(r) ==
    /\ Len(calls[r]) = 1
    /\ inflight[r].kind = "reply"
    /\ inflight[r].wait <= TIMEOUT_LIMIT

(* C6: downstream status pass-through - a backend answer with a non-success
   status S is answered with status S and the fixed detail.                *)
StatusPassThrough ==
    \A r \in Reqs :
        (pc[r] = "done" /\ Answered(r) /\ inflight[r].status # 200)
        => response[r] = Answer(inflight[r].status,
                                "Internal service returned an error.", "")

(* the call failed with no status-bearing answer: refused, timed out, or a
   success answer whose body is not JSON                                   *)
TransportFailed(r) ==
    /\ Len(calls[r]) = 1
    /\ \/ inflight[r].kind \in {"refused", "silent"}
       \/ inflight[r].kind = "reply" /\ inflight[r].wait > TIMEOUT_LIMIT
       \/ inflight[r].kind = "reply" /\ inflight[r].status = 200 /\ ~inflight[r].json

(* C7: transport failure mapping - every such failure, a timeout included,
   is answered with 500 "Unexpected error occurred.".                      *)
TransportFailureMapping ==
    \A r \in Reqs :
        (pc[r] = "done" /\ TransportFailed(r))
        => response[r] = Answer(500, "Unexpected error occurred.", "")

(* one request answered after a timeout and another after a refused
   connection                                                              *)
TransportFailureMappingWitness ==
    \E r, q \in Reqs :
        /\ pc[r] = "done" /\ TransportFailed(r) /\ inflight[r].kind = "silent"
        /\ pc[q] = "done" /\ TransportFailed(q) /\ inflight[q].kind = "refused"

(* C8: undecodable body - a body that is neither form-data nor JSON is
   answered with 400 "Failed to parse JSON data." and no backend call.     *)
UndecodableBody ==
    \A r \in Reqs :
        (pc[r] = "done" /\ body[r].shape = "garbage")
        => /\ response[r] = Answer(400, "Failed to parse JSON data.", "")
           /\ calls[r] = <<>>

(* C9: classification miss - a body that decodes to a payload matching
   neither schema is answered with 400 "Invalid request format." and no
   backend call.                                                           *)
ClassificationMiss ==
    \A r \in Reqs :
        (/\ pc[r] = "done"
         /\ body[r].shape \in {"form", "json"}
         /\ ~SatisfiesFaceSchema(body[r].payload)
         /\ ~SatisfiesImageSchema(body[r].payload))
        => /\ response[r] = Answer(400, "Invalid request format.", "")
           /\ calls[r] = <<>>

(* C10: decode order and fallback - form decoding is attempted first, JSON
   decoding exactly when form decoding did not succeed, and a request is
   rejected as undecodable only after both attempts.                       *)
DecodeOrderAndFallback ==
    \A r \in Reqs :
        pc[r] = "done"
        => /\ Len(tried[r]) >= 1 /\ tried[r][1] = "form"
           /\ ("json" \in Range(tried[r])) <=> request_form(body[r]).raised
           /\ response[r].detail \in {"Failed to parse form-data.",
                                      "Failed to parse JSON data."}
              => tried[r] = <<"form", "json">>

(* the payload of a body that decodes matches a schema: as spec 4.1 has it,
   or as the repository's test has it (the scenario form)                  *)
MatchesSomeSchema(b) ==
    /\ b.shape \in {"form", "json"}
    /\ \/ SatisfiesFaceSchema(b.payload)
       \/ SatisfiesImageSchema(b.payload)
       \/ b.payload = ScenarioPayload

(* the backend answers 200 with a JSON body whenever it is called *)
AnswersSuccess(r) ==
    Len(calls[r]) = 1
    => (Answered(r) /\ inflight[r].status = 200 /\ inflight[r].json)

(* C11: success pass-through - a request whose payload matches a schema and
   whose matched backend answers 200 with JSON body B is answered with
   status 200 and body exactly B.                                          *)
SuccessPassThrough ==
    \A r \in Reqs :
        (pc[r] = "done" /\ MatchesSomeSchema(body[r]) /\ AnswersSuccess(r))
        => /\ Len(calls[r]) = 1
           /\ response[r] = Answer(200, "", inflight[r].content)

(* C12: single invocation - a request makes at most one backend call; one
   that has a service selected makes exactly one, to that service; one that
   failed decoding or classification makes none.                           *)
SingleInvocation ==
    \A r \in Reqs :
        /\ Len(calls[r]) <= 1
        /\ (pc[r] \in {"send", "done"} /\ service[r] \in Services)
           => (Len(calls[r]) = 1 /\ calls[r][1].service = service[r])
        /\ (pc[r] = "done" /\ service[r] \notin Services)
           => calls[r] = <<>>

(* one request ended in a downstream failure after its one call (no retry),
   another was rejected before any call                                    *)
SingleInvocationWitness ==
    \E r, q \in Reqs :
        /\ pc[r] = "done" /\ response[r].status = 500 /\ Len(calls[r]) = 1
        /\ pc[q] = "done" /\ response[q].status = 400 /\ calls[q] = <<>>

(* C13: classifier fall-through - a payload that fails the face schema
   (missing field or value of the wrong type) is never fatal: the image
   schema is tried next, and the result is the first of face, image that
   validates, or the no-match error when neither does.                     *)
ClassifierFallThrough ==
    ret # NoRet
    => ret = IF SatisfiesFaceSchema(arg) THEN Returned("FaceService")
             ELSE IF SatisfiesImageSchema(arg) THEN Returned("ManhuaService")
             ELSE Raised(400, "Invalid request format.")

(* content_type and content_name are there, face_restore is not a number,
   and the payload was classified as image                                 *)
ClassifierFallThroughWitness ==
    /\ ret = Returned("ManhuaService")
    /\ arg.content_type = "text" /\ arg.content_name = "text"
    /\ arg.face_restore = "text"
    /\ arg.data = "object"

(* C14: payload unchanged - the payload handed to send_request is the
   decoded payload of the request, the one that was classified, with every
   field of it, fields outside the matched schema included.                *)
PayloadUnchanged ==
    \A r \in Reqs :
        calls[r] # <<>>
        => /\ calls[r][1].payload = body[r].payload
           /\ calls[r][1].payload = data[r]

(* a payload with a field outside the face schema has been forwarded *)
PayloadUnchangedWitness ==
    \E r \in Reqs :
        /\ Len(calls[r]) = 1
        /\ calls[r][1].service = "FaceService"
        /\ calls[r][1].payload.extra
        /\ body[r].payload.extra

(* the messages api_endpoint and determine_service put in their errors *)
FixedDetails ==
    {"Invalid request format.", "Failed to parse form-data.",
     "Failed to parse JSON data.", "Internal service returned an error.",
     "Unexpected error occurred."}

(* the backend answered the call of r with an error status *)
ErrorAnswered(r) == Answered(r) /\ inflight[r].status # 200

(* C15: no leak of downstream detail - two requests that differ only in
   the body of the backend's error response get the same response, and the
   detail of every error response is one of the dispatcher's own messages. *)
NoDownstreamLeak ==
    /\ \A r, q \in Reqs :
        (/\ pc[r] = "done" /\ pc[q] = "done"
         /\ body[r] = body[q]
         /\ ErrorAnswered(r) /\ ErrorAnswered(q)
         /\ [inflight[r] EXCEPT !.content = ""] = [inflight[q] EXCEPT !.content = ""])
        => response[r] = response[q]
    /\ \A r \in Reqs :
        (pc[r] = "done" /\ response[r].status # 200)
        => (response[r].detail \in FixedDetails /\ response[r].content = "")

(* what the handler answers to a request handled on its own: a function of
   the request's body and of the backend's reply to its call               *)
OwnOutcome(b, reply) ==
    LET f == request_form(b) IN
    IF f.raised THEN Answer(400, "Failed to parse form-data.", "")
    ELSE LET d == determine_service(f.value) IN
         IF d.raised THEN Answer(d.status, d.detail, "")
         ELSE forward_result(send_request(d.service, reply))

OwnSelection(b) ==
    LET f == request_form(b) IN
    IF f.raised THEN "unbound"
    ELSE LET d == determine_service(f.value) IN
         IF d.raised THEN "unbound" ELSE d.service

(* C16: independence of requests - in every interleaving the selected
   service, the forwarded payload and the response of a request are those
   of its own body and of the backend's reply to its own call.             *)
RequestsIndependent ==
    \A r \in Reqs :
        /\ pc[r] \in {"send", "done"} => service[r] = OwnSelection(body[r])
        /\ calls[r] # <<>> => calls[r][1].payload = body[r].payload
        /\ pc[r] = "done" => response[r] = OwnOutcome(body[r], inflight[r])

(* two requests with different bodies have been answered, one with the
   backend's body and one with a rejection                                 *)
RequestsIndependentWitness ==
    \E r, q \in Reqs :
        /\ pc[r] = "done" /\ pc[q] = "done"
        /\ body[r] # body[q]
        /\ response[r].status = 200 /\ response[q].status = 400

(* C18: determine_service returns a service or raises, never a falsy
   value: once the form stage has run, a request holds a selected service or
   has ended with a 400, and no request ever awaits request.json().        *)
JsonStageUnreachable ==
    \A r \in Reqs :
        /\ pc[r] # "json"
        /\ "json" \notin Range(tried[r])
        /\ Len(tried[r]) >= 1
           => \/ service[r] \in Services
              \/ pc[r] = "done" /\ response[r].status = 400

(* the form stage has run for a body that is JSON and matches the image
   schema, and for a form that selected a service                          *)
JsonStageUnreachableWitness ==
    \E r, q \in Reqs :
        /\ pc[r] = "done" /\ body[r].shape = "json" /\ tried[r] = <<"form">>
        /\ SatisfiesImageSchema(body[r].payload)
        /\ pc[q] = "send" /\ service[q] \in Services /\ tried[q] = <<"form">>

(* C17: no cancellation propagation - when a caller leaves while its
   request waits for the gate, the call in flight is not aborted (every call
   made ends with the answer the handler computes from the backend's
   reply), the gate is not leaked (it is locked only while a request is
   inside) and it is passed on: whenever it is free and requests wait, the
   first of them has been woken, and no departed-and-cancelled request
   stays in the queue.                                                     *)
NoCancellationPropagation ==
    /\ \A q \in Reqs :
        (pc[q] = "done" /\ Len(calls[q]) = 1)
        => response[q] = forward_result(send_request(service[q], inflight[q]))
    /\ locked => \E r \in Reqs : Inside(r)
    /\ (~locked /\ waiters # <<>>) => Head(waiters) \in woken
    /\ \A i \in 1..Len(waiters) : pc[waiters[i]] = "waiting"

(* a caller left while its request waited behind a call in flight; that call
   has completed with the backend's answer and the gate has been passed to
   the waiter                                                              *)
NoCancellationPropagationWitness ==
    \E r, q \in Reqs :
        /\ r \in gone /\ pc[r] = "waiting" /\ r \in woken
        /\ pc[q] = "done" /\ Len(calls[q]) = 1 /\ response[q].status = 200

(* C19: first come, first served - whenever a request enters the critical
   section while requests are waiting, it is the one that has waited
   longest (the head of the queue): no waiter is overtaken.                *)
FirstComeFirstServed ==
    [][\A r \in Reqs :
        (pc[r] # "form" /\ pc'[r] = "form")
        => (waiters = <<>> \/ Head(waiters) = r)]_vars

(* the gate has just been released to the first of two waiting requests *)
FirstComeFirstServedWitness ==
    /\ Len(waiters) = 2
    /\ ~locked
    /\ Head(waiters) \in woken

====
